---- MODULE Spec2Model ----
(***************************************************************************)
(* Generalised rock-paper-scissors with an HMAC commitment                 *)
(* (RockPapperScissors/Game.py).                                           *)
(*                                                                         *)
(* Three specifications are given over the same variables:                   *)
(*   Spec     the whole program: construction of Game, validation of the   *)
(*            move list, and the loop of rounds of play_game;              *)
(*   DetSpec  GameResult.determine and ResultTableConstructor.build_table  *)
(*            applied to validated move lists of up to 2*MaxHalf+1 names;  *)
(*   ErrSpec  GameResult.determine applied to any move list and any names. *)
(***************************************************************************)
EXTENDS Integers, Sequences, FiniteSets, TLC

VARIABLES
    moves,          \* Game.moves: the positional arguments game_moves
    pc,             \* position of the process
    hmac,           \* Game.hmac: the HmacGenerator object (two private fields)
    help_table,     \* GameMenu.help_table.result_table
    computer_move,  \* play_game local
    user_move,      \* play_game local
    game_result,    \* play_game local: value returned by determine
    io,             \* terminal transcript of the current round (prints and reads)
    exit_code,      \* exit status of the process, None while it runs
    round,          \* number of calls of play_game so far
    drawn           \* the keys returned by secrets.token_hex, in call order

vars == <<moves, pc, hmac, help_table, computer_move, user_move, game_result,
          io, exit_code, round, drawn>>

-----------------------------------------------------------------------------
(* Bounds *)

MaxArgs == 4        \* longest argument list of a session
MaxRounds == 2      \* rounds started in a session
MaxInputs == 3      \* lines read at the move prompt in one round
MaxHalf == 2        \* DetSpec: validated lists have 2*h+1 names, h in 1..MaxHalf

(* Python's None; move names and keys never take this value *)
None == "None"

(* Names available on the command line of a session *)
Names == {"", "rock", "paper", "scissors"}

(* Names available to DetSpec *)
DetNames == {"a", "b", "c", "d", "e", "f", "g"}

(* Values secrets.token_hex(32) may return *)
Keys == {"k1", "k2"}

-----------------------------------------------------------------------------
(* Python list helpers *)

Range(s) == {s[i] : i \in 1..Len(s)}

(* list.index(x) raises ValueError when x is not in the list ... *)
index_raises(s, x) == x \notin Range(s)

(* ... and otherwise returns the 0-based position of the first occurrence *)
index(s, x) ==
    (CHOOSE i \in 1..Len(s) : s[i] = x /\ \A k \in 1..(i-1) : s[k] # x) - 1

(* s[i:] + s[:i] for 0 <= i <= len(s) *)
Rotate(s, i) == SubSeq(s, i + 1, Len(s)) \o SubSeq(s, 1, i)

-----------------------------------------------------------------------------
(* GameResult.determine *)

half_length_up(ms) == (Len(ms) + 1) \div 2

half_length(ms) == Len(ms) \div 2

determine_swapped(ms, um, cm) ==
    IF index_raises(ms, um) \/ index_raises(ms, cm)
    THEN "ValueError"
    ELSE
    LET user_move_index == index(ms, um)
        computer_move_index == index(ms, cm)
    IN  IF user_move_index = computer_move_index
        THEN "Draw"
        ELSE LET rearranged_words == Rotate(ms, user_move_index)
             IN  IF half_length(ms) < index(rearranged_words, ms[computer_move_index + 1])
                 THEN "Lose"
                 ELSE "Win"

determine_norotate(ms, um, cm) ==
    IF index_raises(ms, um) \/ index_raises(ms, cm)
    THEN "ValueError"
    ELSE
    LET user_move_index == index(ms, um)
        computer_move_index == index(ms, cm)
    IN  IF user_move_index = computer_move_index
        THEN "Draw"
        ELSE IF half_length(ms) < index(ms, ms[computer_move_index + 1])
             THEN "Win"
             ELSE "Lose"

determine_le(ms, um, cm) ==
    IF index_raises(ms, um) \/ index_raises(ms, cm)
    THEN "ValueError"
    ELSE
    LET user_move_index == index(ms, um)
        computer_move_index == index(ms, cm)
    IN  IF user_move_index = computer_move_index
        THEN "Draw"
        ELSE LET rearranged_words == Rotate(ms, user_move_index)
             IN  IF half_length(ms) <= index(rearranged_words, ms[computer_move_index + 1])
                 THEN "Win"
                 ELSE "Lose"

determine_lenient(ms, um, cm) ==
    IF index_raises(ms, um)
    THEN "ValueError"
    ELSE IF index_raises(ms, cm)
    THEN "Lose"
    ELSE
    LET user_move_index == index(ms, um)
        computer_move_index == index(ms, cm)
    IN  IF user_move_index = computer_move_index
        THEN "Draw"
        ELSE LET rearranged_words == Rotate(ms, user_move_index)
             IN  IF half_length(ms) < index(rearranged_words, ms[computer_move_index + 1])
                 THEN "Win"
                 ELSE "Lose"

determine(ms, um, cm) ==
    IF index_raises(ms, um) \/ index_raises(ms, cm)
    THEN "ValueError"
    ELSE
    LET user_move_index == index(ms, um)
        computer_move_index == index(ms, cm)
    IN  IF user_move_index = computer_move_index
        THEN "Draw"
        ELSE LET rearranged_words == Rotate(ms, user_move_index)
             IN  IF half_length(ms) < index(rearranged_words, ms[computer_move_index + 1])
                 THEN "Win"
                 ELSE "Lose"

-----------------------------------------------------------------------------
(* ResultTableConstructor.build_table: header row, then one row per user move *)

build_table_transposed(ms) ==
    <<(<<"User \\ PC">> \o ms)>> \o
    [i \in 1..Len(ms) |->
        <<ms[i]>> \o [j \in 1..Len(ms) |-> determine(ms, ms[j], ms[i])]]

build_table(ms) ==
    <<(<<"User \\ PC">> \o ms)>> \o
    [i \in 1..Len(ms) |->
        <<ms[i]>> \o [j \in 1..Len(ms) |-> determine(ms, ms[i], ms[j])]]

-----------------------------------------------------------------------------
(* DetSpec: determine and build_table on validated move lists *)

Injective(s) == \A i, j \in 1..Len(s) : s[i] = s[j] => i = j

DetLists ==
    UNION {{s \in [1..(2 * h + 1) -> DetNames] : Injective(s)} : h \in 1..MaxHalf}

DetInit ==
    /\ moves \in DetLists
    /\ pc = "det"
    /\ hmac = [secret_key |-> None, hmac_value |-> None]
    /\ help_table = <<>>
    /\ computer_move = None
    /\ user_move = None
    /\ game_result = None
    /\ io = <<>>
    /\ exit_code = None
    /\ round = 0
    /\ drawn = <<>>

(* one call determine(user_move, computer_move) *)
DetDetermine ==
    /\ pc = "det"
    /\ \E um \in Range(moves), cm \in Range(moves) :
          /\ user_move' = um
          /\ computer_move' = cm
          /\ game_result' = determine(moves, um, cm)
    /\ pc' = "det_done"
    /\ UNCHANGED <<moves, hmac, help_table, io, exit_code, round, drawn>>

(* one call ResultTableConstructor(moves).build_table() *)
DetBuildTable ==
    /\ pc = "det"
    /\ help_table' = build_table(moves)
    /\ pc' = "det_done"
    /\ UNCHANGED <<moves, hmac, computer_move, user_move, game_result,
                   io, exit_code, round, drawn>>

DetNext == DetDetermine \/ DetBuildTable

DetSpec == DetInit /\ [][DetNext]_vars

-----------------------------------------------------------------------------
(* Input lines typed at the prompts, as sequences of characters *)

Inputs ==
    {<<"?">>, <<"x">>, <<"0">>, <<"-", "1">>, <<"1">>, <<"2">>, <<"3">>,
     <<"4">>, <<"7">>}

(* Lines typed at "Press 'Enter' to return to the menu" *)
AckLines == {<<>>}

DigitChars == <<"0", "1", "2", "3", "4", "5", "6", "7", "8", "9">>

DigitVal(c) == (CHOOSE d \in 1..10 : DigitChars[d] = c) - 1

RECURSIVE StripLeft(_)
StripLeft(s) == IF s # <<>> /\ Head(s) = " " THEN StripLeft(Tail(s)) ELSE s

RECURSIVE StripRight(_)
StripRight(s) ==
    IF s # <<>> /\ s[Len(s)] = " " THEN StripRight(SubSeq(s, 1, Len(s) - 1)) ELSE s

(* the digits of an int literal: surrounding blanks and one sign removed *)
IntBody(s) ==
    LET t == StripRight(StripLeft(s))
    IN  IF t # <<>> /\ Head(t) \in {"+", "-"} THEN Tail(t) ELSE t

IntNegative(s) ==
    LET t == StripRight(StripLeft(s)) IN t # <<>> /\ Head(t) = "-"

(* int(s) raises ValueError unless s is an optionally signed run of digits *)
int_raises(s) ==
    LET body == IntBody(s)
    IN  \/ body = <<>>
        \/ \E i \in 1..Len(body) : body[i] \notin Range(DigitChars)

RECURSIVE DigitsValue(_)
DigitsValue(d) ==
    IF d = <<>> THEN 0
    ELSE 10 * DigitsValue(SubSeq(d, 1, Len(d) - 1)) + DigitVal(d[Len(d)])

int(s) == IF IntNegative(s) THEN 0 - DigitsValue(IntBody(s)) ELSE DigitsValue(IntBody(s))

-----------------------------------------------------------------------------
(* HmacGenerator *)

(* hmac.new(key, message, sha256).hexdigest(): a function of key and message
   that is one-to-one on the keys and messages of the model *)
hmac_new(key, message) == "hmac(" \o key \o "," \o message \o ")"

generate_reuse(self, message, key) ==
    IF self.secret_key = None
    THEN [secret_key |-> key, hmac_value |-> hmac_new(key, message)]
    ELSE [secret_key |-> self.secret_key,
          hmac_value |-> hmac_new(self.secret_key, message)]

(* generate(message), key being the value secrets.token_hex returns *)
generate(self, message, key) ==
    [secret_key |-> key, hmac_value |-> hmac_new(key, message)]

get_secret_key(self) == self.secret_key

get_hmac_key(self) == self.secret_key

get_hmac(self) == self.hmac_value

-----------------------------------------------------------------------------
(* GameMenu: what each method writes to the terminal *)

display_menu(ms, hmac_value) ==
    [ev |-> "menu",
     hmac |-> hmac_value,
     items |-> [i \in 1..Len(ms) |-> <<index(ms, ms[i]) + 1, ms[i]>>],
     help |-> "? - help",
     exit |-> "0 - exit"]

display_result_swapped(um, cm, result, secret_key) ==
    [ev |-> "result", user_move |-> cm, computer_move |-> um,
     result |-> result, key |-> secret_key]

display_result(um, cm, result, secret_key) ==
    [ev |-> "result", user_move |-> um, computer_move |-> cm,
     result |-> result, key |-> secret_key]

display_error(error_message) == [ev |-> "error", text |-> error_message]

get_table_noheader(result_table) ==
    [tablefmt |-> "fancy_grid", rows |-> Tail(result_table)]

(* ResultTableConstructor.get_table: the rows laid out as a grid *)
get_table(result_table) == [tablefmt |-> "fancy_grid", rows |-> result_table]

display_help(table) ==
    [ev |-> "help", title |-> "[Table of possible outcomes]",
     table |-> get_table(table)]

(* a line read by input() *)
read(line) == [ev |-> "input", line |-> line]

(* exit_game: the farewell line; sys.exit() without argument ends with status 0 *)
exit_game_print == [ev |-> "print", text |-> "[Game Exit]"]

sys_exit_status == 0

(* the script running off its end after the break *)
normal_end_status == 0

(* "not user_move" *)
falsy(v) == v = None \/ v = ""

NumReads(t) == Cardinality({i \in 1..Len(t) : t[i].ev = "input"})

-----------------------------------------------------------------------------
(* The program *)

ArgLists == UNION {[1..n -> Names] : n \in 1..MaxArgs}

Init ==
    /\ moves \in ArgLists
    /\ pc = "new"
    /\ hmac = [secret_key |-> None, hmac_value |-> None]
    /\ help_table = <<>>
    /\ computer_move = None
    /\ user_move = None
    /\ game_result = None
    /\ io = <<>>
    /\ exit_code = None
    /\ round = 0
    /\ drawn = <<>>

(* game = Game(game_moves) *)
Construct ==
    /\ pc = "new"
    /\ hmac' = [secret_key |-> None, hmac_value |-> None]
    /\ help_table' = build_table(moves)
    /\ pc' = "constructed"
    /\ UNCHANGED <<moves, computer_move, user_move, game_result, io, exit_code,
                   round, drawn>>

check_error_gt3(ms) ==
    IF Len(ms) <= 3 THEN "The number of moves must be greater than 3!"
    ELSE IF Len(ms) % 2 = 0 THEN "Enter an odd number of moves!"
    ELSE IF Len(ms) # Cardinality(Range(ms)) THEN "There should be no repetitive moves!"
    ELSE None

(* check_correct_input_moves: the message of the first failing check *)
check_error(ms) ==
    IF Len(ms) < 3 THEN "The number of moves must be greater than 3!"
    ELSE IF Len(ms) % 2 = 0 THEN "Enter an odd number of moves!"
    ELSE IF Len(ms) # Cardinality(Range(ms)) THEN "There should be no repetitive moves!"
    ELSE None

CheckFails_noexit ==
    /\ pc = "constructed"
    /\ check_error(moves) # None
    /\ io' = io \o <<display_error(check_error(moves))>>
    /\ pc' = "loop"
    /\ UNCHANGED <<moves, hmac, help_table, computer_move, user_move,
                   game_result, exit_code, round, drawn>>

CheckFails ==
    /\ pc = "constructed"
    /\ check_error(moves) # None
    /\ io' = io \o <<display_error(check_error(moves)), exit_game_print>>
    /\ pc' = "exited"
    /\ exit_code' = sys_exit_status
    /\ UNCHANGED <<moves, hmac, help_table, computer_move, user_move,
                   game_result, round, drawn>>

CheckPasses ==
    /\ pc = "constructed"
    /\ check_error(moves) = None
    /\ pc' = "loop"
    /\ UNCHANGED <<moves, hmac, help_table, computer_move, user_move,
                   game_result, io, exit_code, round, drawn>>

(* play_game up to the first prompt *)
RoundStart ==
    /\ pc = "loop"
    /\ round < MaxRounds
    /\ \E cm \in Range(moves), key \in Keys :
          /\ computer_move' = cm
          /\ drawn' = Append(drawn, key)
          /\ hmac' = generate(hmac, cm, key)
    /\ io' = <<display_menu(moves, get_hmac(hmac'))>>
    /\ user_move' = None
    /\ game_result' = None
    /\ round' = round + 1
    /\ pc' = "prompt"
    /\ UNCHANGED <<moves, help_table, exit_code>>

(* a line is read at "Enter you move: " *)
Prompting == pc = "prompt" /\ NumReads(io) < MaxInputs

Help_rebuild ==
    /\ Prompting
    /\ \E line \in Inputs :
          /\ line = <<"?">>
          /\ help_table' = help_table \o build_table(moves)
          /\ io' = io \o <<read(line), display_help(help_table')>>
    /\ UNCHANGED <<moves, pc, hmac, computer_move, user_move,
                   game_result, exit_code, round, drawn>>

Help ==
    /\ Prompting
    /\ \E line \in Inputs :
          /\ line = <<"?">>
          /\ io' = io \o <<read(line), display_help(help_table)>>
    /\ UNCHANGED <<moves, pc, hmac, help_table, computer_move, user_move,
                   game_result, exit_code, round, drawn>>

ChoiceValueError ==
    /\ Prompting
    /\ \E line \in Inputs :
          /\ line # <<"?">>
          /\ int_raises(line)
          /\ io' = io \o <<read(line), display_error("Only number or '?'")>>
    /\ UNCHANGED <<moves, pc, hmac, help_table, computer_move, user_move,
                   game_result, exit_code, round, drawn>>

ChoiceExit_caught ==
    /\ Prompting
    /\ \E line \in Inputs :
          /\ line # <<"?">>
          /\ ~int_raises(line)
          /\ int(line) = 0
          /\ io' = io \o <<read(line), exit_game_print,
                           display_error("Select move only from the menu")>>
    /\ UNCHANGED <<moves, pc, hmac, help_table, computer_move, user_move,
                   game_result, exit_code, round, drawn>>

ChoiceExit ==
    /\ Prompting
    /\ \E line \in Inputs :
          /\ line # <<"?">>
          /\ ~int_raises(line)
          /\ int(line) = 0
          /\ io' = io \o <<read(line), exit_game_print>>
    /\ pc' = "exited"
    /\ exit_code' = sys_exit_status
    /\ UNCHANGED <<moves, hmac, help_table, computer_move, user_move,
                   game_result, round, drawn>>

ChoiceNegative_wrap ==
    /\ Prompting
    /\ \E line \in Inputs :
          /\ line # <<"?">>
          /\ ~int_raises(line)
          /\ int(line) < 0
          /\ Len(moves) + int(line) >= 1
          /\ user_move' = moves[Len(moves) + int(line)]
          /\ io' = io \o <<read(line)>>
    /\ UNCHANGED <<moves, pc, hmac, help_table, computer_move, game_result,
                   exit_code, round, drawn>>

ChoiceNegative ==
    /\ Prompting
    /\ \E line \in Inputs :
          /\ line # <<"?">>
          /\ ~int_raises(line)
          /\ int(line) < 0
          /\ io' = io \o <<read(line), display_error("Only positive numbers!")>>
    /\ UNCHANGED <<moves, pc, hmac, help_table, computer_move, user_move,
                   game_result, exit_code, round, drawn>>

ChoiceIndexError ==
    /\ Prompting
    /\ \E line \in Inputs :
          /\ line # <<"?">>
          /\ ~int_raises(line)
          /\ int(line) > 0
          /\ int(line) - 1 >= Len(moves)
          /\ io' = io \o <<read(line), display_error("Select move only from the menu")>>
    /\ UNCHANGED <<moves, pc, hmac, help_table, computer_move, user_move,
                   game_result, exit_code, round, drawn>>

(* self.moves[user_move_index] succeeds; the loop ends when the name is truthy,
   and play_game runs on to the acknowledgment prompt *)
ChoiceMove ==
    /\ Prompting
    /\ \E line \in Inputs :
          /\ line # <<"?">>
          /\ ~int_raises(line)
          /\ int(line) > 0
          /\ int(line) - 1 < Len(moves)
          /\ user_move' = moves[(int(line) - 1) + 1]
          /\ IF falsy(user_move')
             THEN /\ io' = io \o <<read(line)>>
                  /\ UNCHANGED <<pc, game_result>>
             ELSE /\ game_result' = determine(moves, user_move', computer_move)
                  /\ io' = io \o <<read(line),
                                   display_result(user_move', computer_move,
                                                  game_result', get_secret_key(hmac))>>
                  /\ pc' = "ack"
    /\ UNCHANGED <<moves, hmac, help_table, computer_move, exit_code, round, drawn>>

Acknowledge_exit ==
    /\ pc = "ack"
    /\ \E line \in AckLines : io' = io \o <<read(line)>>
    /\ pc' = "exited"
    /\ exit_code' = sys_exit_status
    /\ UNCHANGED <<moves, hmac, help_table, computer_move, user_move,
                   game_result, round, drawn>>

(* wait_back_to_menu returns, play_game returns, the while loop goes round *)
Acknowledge ==
    /\ pc = "ack"
    /\ \E line \in AckLines : io' = io \o <<read(line)>>
    /\ pc' = "loop"
    /\ UNCHANGED <<moves, hmac, help_table, computer_move, user_move,
                   game_result, exit_code, round, drawn>>

Interrupt_continue ==
    /\ pc \in {"prompt", "ack"}
    /\ pc' = "loop"
    /\ UNCHANGED <<moves, hmac, help_table, computer_move, user_move,
                   game_result, io, exit_code, round, drawn>>

(* KeyboardInterrupt inside the try of the main loop: break *)
Interrupt ==
    /\ pc \in {"loop", "prompt", "ack"}
    /\ pc' = "stopped"
    /\ exit_code' = normal_end_status
    /\ UNCHANGED <<moves, hmac, help_table, computer_move, user_move,
                   game_result, io, round, drawn>>

Next ==
    \/ Construct
    \/ CheckFails
    \/ CheckPasses
    \/ RoundStart
    \/ Help
    \/ ChoiceValueError
    \/ ChoiceExit
    \/ ChoiceNegative
    \/ ChoiceIndexError
    \/ ChoiceMove
    \/ Acknowledge
    \/ Interrupt

Spec == Init /\ [][Next]_vars

-----------------------------------------------------------------------------
(* ErrSpec: determine called on any move list with any two names, members of
   the list or not *)

CallNames == Names \cup {"spock"}

ErrInit ==
    /\ moves \in ArgLists
    /\ pc = "err"
    /\ hmac = [secret_key |-> None, hmac_value |-> None]
    /\ help_table = <<>>
    /\ computer_move = None
    /\ user_move = None
    /\ game_result = None
    /\ io = <<>>
    /\ exit_code = None
    /\ round = 0
    /\ drawn = <<>>

(* one call determine(user_move, computer_move) *)
ErrDetermine ==
    /\ pc = "err"
    /\ \E um \in CallNames, cm \in CallNames :
          /\ user_move' = um
          /\ computer_move' = cm
          /\ game_result' = determine(moves, um, cm)
    /\ pc' = "err_done"
    /\ UNCHANGED <<moves, hmac, help_table, io, exit_code, round, drawn>>

ErrNext == ErrDetermine

ErrSpec == ErrInit /\ [][ErrNext]_vars

-----------------------------------------------------------------------------
(* Properties of determine, checked under DetSpec *)

(* the move list passes the three checks of check_correct_input_moves *)
Validated(ms) == Len(ms) >= 3 /\ Len(ms) % 2 = 1 /\ Injective(ms)

(* determine was called with user_move and computer_move *)
Determined == pc = "det_done" /\ game_result # None

(* 1-based positions of the two moves of the call *)
I == index(moves, user_move) + 1
J == index(moves, computer_move) + 1

Half == (Len(moves) - 1) \div 2

(* C1: for a move list of odd length >= 3 with distinct names, of two moves at
   different positions exactly one wins against the other and the other
   loses, and a move against itself is a Draw. *)
C1_Antisymmetry ==
    (Validated(moves) /\ Determined) =>
        LET reversed == determine(moves, computer_move, user_move)
        IN  IF I = J
            THEN game_result = "Draw"
            ELSE \/ game_result = "Win" /\ reversed = "Lose"
                 \/ game_result = "Lose" /\ reversed = "Win"

C1_Witness ==
    /\ Determined
    /\ Len(moves) = 5
    /\ user_move # computer_move
    /\ game_result = "Win"
    /\ determine(moves, computer_move, user_move) = "Lose"

(* C2 as stated: a move beats the next (n-1)/2 moves of the sequence and loses
   to the previous (n-1)/2: Win exactly when (j - i) mod n is in 1..(n-1)/2,
   Lose exactly when (i - j) mod n is in 1..(n-1)/2. *)
C2_BeatsNext ==
    (Validated(moves) /\ Determined) =>
        /\ game_result = "Win" <=> ((J - I) % Len(moves)) \in 1..Half
        /\ game_result = "Lose" <=> ((I - J) % Len(moves)) \in 1..Half

(* C2 amended: a move loses to the next (n-1)/2 moves of the sequence and
   beats the previous (n-1)/2: Win exactly when (i - j) mod n is in
   1..(n-1)/2, Lose exactly when (j - i) mod n is in 1..(n-1)/2. *)
C2_BeatsPrevious ==
    (Validated(moves) /\ Determined) =>
        /\ game_result = "Win" <=> ((I - J) % Len(moves)) \in 1..Half
        /\ game_result = "Lose" <=> ((J - I) % Len(moves)) \in 1..Half

C2_Witness ==
    /\ Determined
    /\ Len(moves) = 5
    /\ user_move = moves[1]
    /\ computer_move = moves[4]
    /\ game_result = "Win"

(* the index rule: d = (c - h) mod n, Lose when d <= (n-1)/2, Win otherwise *)
IndexRule(n, h, c) ==
    IF (c - h) % n <= (n - 1) \div 2 THEN "Lose" ELSE "Win"

(* C3: for two different moves at 0-based positions h and c of a validated
   list, determine returns Lose when (c - h) mod n <= (n-1)/2 and Win
   otherwise, and the comparison of half_length with the position of the
   computer move in the list rotated to the human move decides the same way. *)
C3_RotationIsIndexRule ==
    (Validated(moves) /\ Determined /\ user_move # computer_move) =>
        LET h == index(moves, user_move)
            c == index(moves, computer_move)
        IN  /\ game_result = IndexRule(Len(moves), h, c)
            /\ (half_length(moves) < index(Rotate(moves, h), computer_move))
                  <=> (IndexRule(Len(moves), h, c) = "Win")

(* the computer move exactly (n-1)/2 places after the human move: Lose *)
C3_Witness ==
    /\ Determined
    /\ Len(moves) = 5
    /\ index(moves, user_move) = 3
    /\ index(moves, computer_move) = 0
    /\ game_result = "Lose"

(* the table of a validated list was built *)
TableBuilt == pc = "det_done" /\ help_table # <<>>

(* the outcomes of row i of the table against the other moves *)
Others(i, outcome) ==
    {j \in 1..Len(moves) : j # i /\ help_table[i + 1][j + 1] = outcome}

(* C4: every move of a validated list wins against exactly (n-1)/2 of the
   other moves and loses against exactly (n-1)/2 of them. *)
C4_Balance ==
    (Validated(moves) /\ TableBuilt) =>
        \A i \in 1..Len(moves) :
            /\ Cardinality(Others(i, "Win")) = Half
            /\ Cardinality(Others(i, "Lose")) = Half
            /\ \A j \in 1..Len(moves) :
                  help_table[i + 1][j + 1] = determine(moves, moves[i], moves[j])

C4_Witness ==
    /\ TableBuilt
    /\ Len(moves) = 5
    /\ Cardinality(Others(3, "Win")) = 2
    /\ Cardinality(Others(3, "Lose")) = 2

-----------------------------------------------------------------------------
(* Properties of the program, checked under Spec *)

RPS == <<"rock", "paper", "scissors">>

(* the cell of the help table for a human move and a computer move *)
Cell(um, cm) == help_table[index(moves, um) + 2][index(moves, cm) + 2]

(* C5: for the list rock, paper, scissors the table built at construction is
   the classical one: rock beats scissors, scissors beats paper, paper beats
   rock, the reversed pairs lose, and the self-pairs are draws. *)
C5_ClassicalTable ==
    (moves = RPS /\ pc # "new") =>
        /\ Len(help_table) = 4
        /\ help_table[1] = <<"User \\ PC", "rock", "paper", "scissors">>
        /\ \A i \in 1..3 : help_table[i + 1][1] = RPS[i] /\ Len(help_table[i + 1]) = 4
        /\ Cell("rock", "scissors") = "Win"
        /\ Cell("scissors", "paper") = "Win"
        /\ Cell("paper", "rock") = "Win"
        /\ Cell("scissors", "rock") = "Lose"
        /\ Cell("paper", "scissors") = "Lose"
        /\ Cell("rock", "paper") = "Lose"
        /\ \A m \in Range(RPS) : Cell(m, m) = "Draw"

C5_Witness ==
    /\ moves = RPS
    /\ pc = "prompt"
    /\ io[Len(io)] = display_help(help_table)
    /\ Cell("rock", "scissors") = "Win"

(* a round has started: io is the transcript of round number round *)
InRound == round >= 1

(* the line selects a move of the menu: an integer k with 1 <= k <= n *)
ValidSelection(line) ==
    line # <<"?">> /\ ~int_raises(line) /\ int(line) \in 1..Len(moves)

(* the terminal event shows the value v outside what the user typed *)
Shows(e, v) ==
    CASE e.ev = "menu" -> e.hmac = v
      [] e.ev = "result" -> e.key = v
      [] e.ev \in {"error", "print"} -> e.text = v
      [] OTHER -> FALSE

(* the event gives away the secret key or which move the computer chose *)
Reveals(e) == Shows(e, get_secret_key(hmac)) \/ e.ev = "result"

Outcomes == {"Win", "Lose", "Draw"}

(* C6: in every round the computer move is chosen and the digest displayed
   before any input is read, and the key and the computer move are displayed
   only after a valid selection was read and the outcome resolved: never at
   the menu, on a help request or on an invalid input. *)
C6_KeyWithheldUntilMove ==
    InRound =>
        /\ io # <<>>
        /\ io[1].ev = "menu"
        /\ io[1].hmac = get_hmac(hmac)
        /\ get_hmac(hmac) # None
        /\ computer_move \in Range(moves)
        /\ \A i \in 1..Len(io) :
              Reveals(io[i]) =>
                /\ i > 2
                /\ io[i - 1].ev = "input"
                /\ ValidSelection(io[i - 1].line)
                /\ user_move = moves[int(io[i - 1].line)]
                /\ game_result \in Outcomes
                /\ pc # "prompt"
        /\ pc = "prompt" => \A i \in 1..Len(io) : ~Reveals(io[i])

(* still prompting after a help request and an invalid input *)
C6_Witness ==
    /\ pc = "prompt"
    /\ Len(io) = 5
    /\ io[2] = read(<<"?">>)
    /\ io[3].ev = "help"
    /\ io[4] = read(<<"7">>)
    /\ io[5].ev = "error"
    /\ \A i \in 1..Len(io) : ~Reveals(io[i])

(* C7: the key and the computer move shown in the result of a round recompute
   to the digest shown in the menu of that round, and from the display of the
   digest on the generator's key and the computer move stay those the digest
   was computed from. *)
C7_RevealVerifiesDigest ==
    InRound =>
        /\ io[1].hmac = hmac_new(get_secret_key(hmac), computer_move)
        /\ \A i \in 1..Len(io) :
              io[i].ev = "result" =>
                hmac_new(io[i].key, io[i].computer_move) = io[1].hmac

(* a result shown after a help request and an invalid input, moves differing *)
C7_Witness ==
    /\ pc = "ack"
    /\ NumReads(io) = 3
    /\ io[Len(io)].ev = "result"
    /\ io[Len(io)].user_move # io[Len(io)].computer_move
    /\ hmac_new(io[Len(io)].key, io[Len(io)].computer_move) = io[1].hmac

(* C8: every round draws its own key: the digest shown in round k is computed
   with the k-th key drawn, and the key revealed in round k is the k-th key
   drawn, though one HmacGenerator serves all rounds. *)
C8_FreshKeyEachRound ==
    InRound =>
        /\ Len(drawn) = round
        /\ get_secret_key(hmac) = drawn[round]
        /\ io[1].hmac = hmac_new(drawn[round], computer_move)
        /\ \A i \in 1..Len(io) : io[i].ev = "result" => io[i].key = drawn[round]

(* the second round reveals its own key, different from the first round's *)
C8_Witness ==
    /\ round = 2
    /\ pc = "ack"
    /\ drawn[1] # drawn[2]
    /\ io[Len(io)].ev = "result"
    /\ io[Len(io)].key = drawn[2]

(* the move list fails one of the three checks *)
Invalid(ms) == Len(ms) < 3 \/ Len(ms) % 2 = 0 \/ ~Injective(ms)

(* the message of the first failing check, in the order too few, even,
   duplicate *)
FirstFailure(ms) ==
    CASE Len(ms) < 3 -> "The number of moves must be greater than 3!"
      [] Len(ms) >= 3 /\ Len(ms) % 2 = 0 -> "Enter an odd number of moves!"
      [] OTHER -> "There should be no repetitive moves!"

(* C9: validation rejects lists shorter than 3, of even length or with a
   duplicate, and accepts every other list.  A rejection displays exactly one
   error message, that of the first failing check, and ends the process before
   any round: no computer move, no digest, no key, no input read. *)
C9_ValidationGate ==
    pc \notin {"new", "constructed", "det", "det_done"} =>
        IF Invalid(moves)
        THEN /\ pc = "exited"
             /\ round = 0
             /\ computer_move = None
             /\ get_hmac(hmac) = None
             /\ drawn = <<>>
             /\ io = <<display_error(FirstFailure(moves)), exit_game_print>>
        ELSE round = 0 => pc \in {"loop", "stopped"}

(* a list of even length with distinct names is rejected for being even *)
C9_Witness ==
    /\ Len(moves) = 4
    /\ Injective(moves)
    /\ pc = "exited"
    /\ io = <<display_error("Enter an odd number of moves!"), exit_game_print>>

(* C10 as stated: exit status 0 after the selection 0 or an interrupt,
   non-zero after a failed validation of the move list. *)
C10_ExitCodes ==
    pc \in {"exited", "stopped"} =>
        IF pc = "exited" /\ Invalid(moves)
        THEN exit_code # 0
        ELSE exit_code = 0

(* position i of the transcript is a line read at the move prompt *)
MoveRead(t, i) == i > 1 /\ t[i].ev = "input" /\ t[i - 1].ev # "result"

(* the line is neither a help request, nor 0, nor a selection from the menu *)
InvalidLine(line) ==
    /\ line # <<"?">>
    /\ int_raises(line) \/ int(line) < 0 \/ int(line) > Len(moves)

(* C11: at the move prompt a line that is not an integer, an integer greater
   than n, a negative integer and a help request each leave the computer move,
   the key, the digest and the (absent) human move as they are and lead to
   the prompt of the same round; a negative integer selects no move. *)
C11_InvalidInputKeepsRound ==
    [][(pc = "prompt" /\ Len(io') > Len(io)
          /\ (io'[Len(io) + 1].line = <<"?">> \/ InvalidLine(io'[Len(io) + 1].line)))
       => /\ computer_move' = computer_move
          /\ hmac' = hmac
          /\ io'[1] = io[1]
          /\ user_move' = user_move
          /\ falsy(user_move')
          /\ game_result' = None
          /\ round' = round
          /\ pc' = "prompt"]_vars

(* back at the prompt after a help request and then a negative number *)
C11_Witness ==
    /\ pc = "prompt"
    /\ Len(io) = 5
    /\ io[2] = read(<<"?">>)
    /\ io[4] = read(<<"-", "1">>)
    /\ io[5] = display_error("Only positive numbers!")
    /\ user_move = None
    /\ io[1].hmac = hmac_new(get_secret_key(hmac), computer_move)

(* C12 as stated: in a round over a validated list of any distinct names, a
   line read at the move prompt that is an integer k with 1 <= k <= n ends
   the prompting: the human move is moves[k-1] (0-based), the result displayed
   right after it reports that move, the committed computer move and
   determine of the two, and no further line is read at the move prompt. *)
C12_ValidSelectionEndsPrompting ==
    (InRound /\ Validated(moves)) =>
        \A i \in 1..Len(io) :
            (MoveRead(io, i) /\ ValidSelection(io[i].line)) =>
                LET chosen == moves[int(io[i].line)]
                IN  /\ pc # "prompt"
                    /\ user_move = chosen
                    /\ game_result = determine(moves, chosen, computer_move)
                    /\ i < Len(io)
                    /\ io[i + 1] = display_result(chosen, computer_move,
                                                  determine(moves, chosen, computer_move),
                                                  get_secret_key(hmac))
                    /\ \A k \in (i + 1)..Len(io) : ~MoveRead(io, k)

(* position i of the transcript is the selection 0 read at the move prompt *)
ExitRead(t, i) ==
    /\ MoveRead(t, i)
    /\ t[i].line # <<"?">>
    /\ ~int_raises(t[i].line)
    /\ int(t[i].line) = 0

(* C13: the selection 0 at the move prompt of any round, after any inputs,
   ends the process: only the farewell line follows it, no outcome is
   resolved, no result and no key is displayed in that round, and once the
   process has exited no further step (no prompt, no round) is taken. *)
C13_ExitTerminates ==
    /\ [](InRound =>
            \A i \in 1..Len(io) :
                ExitRead(io, i) =>
                    /\ pc = "exited"
                    /\ i = Len(io) - 1
                    /\ io[Len(io)] = exit_game_print
                    /\ game_result = None
                    /\ \A k \in 1..Len(io) : ~Reveals(io[k]))
    /\ [][pc = "exited" => (pc' = "exited" /\ round' = round /\ io' = io)]_vars

(* exit in the second round after a help request and an invalid input *)
C13_Witness ==
    /\ pc = "exited"
    /\ round = 2
    /\ Len(io) = 7
    /\ io[2] = read(<<"?">>)
    /\ io[4] = read(<<"x">>)
    /\ io[6] = read(<<"0">>)
    /\ io[7] = exit_game_print

(* the lines read at the move prompt among the first k events, in order *)
RECURSIVE MoveLines(_, _)
MoveLines(t, k) ==
    IF k = 0 THEN <<>>
    ELSE IF MoveRead(t, k) THEN Append(MoveLines(t, k - 1), t[k].line)
    ELSE MoveLines(t, k - 1)

NumErrors(t) == Cardinality({i \in 1..Len(t) : t[i].ev = "error"})

NumInvalid(t) ==
    Cardinality({i \in 1..Len(t) : MoveRead(t, i) /\ InvalidLine(t[i].line)})

(* C14 as stated: in a round every invalid line (not a number and not '?',
   negative, or greater than n) is followed by exactly one error display, and
   help requests and valid selections by none, so the error displays of the
   round number as many as the invalid lines; for a list of 3 moves and the
   lines x, 7, 1 there are two error displays and then move 1 is accepted. *)
C14_OneErrorPerInvalidInput ==
    (InRound /\ Validated(moves)) =>
        /\ NumErrors(io) = NumInvalid(io)
        /\ \A i \in 1..Len(io) :
              MoveRead(io, i) =>
                IF InvalidLine(io[i].line)
                THEN /\ i < Len(io)
                     /\ io[i + 1].ev = "error"
                     /\ i + 2 <= Len(io) => io[i + 2].ev = "input"
                ELSE i < Len(io) => io[i + 1].ev # "error"
        /\ (Len(moves) = 3 /\ MoveLines(io, Len(io)) = <<(<<"x">>), (<<"7">>), (<<"1">>)>>) =>
              /\ NumErrors(io) = 2
              /\ pc # "prompt"
              /\ user_move = moves[1]
              /\ \E i \in 1..Len(io) :
                    io[i].ev = "result" /\ io[i].user_move = moves[1]

(* C15: an interrupt while the process waits for the move or for the
   acknowledgment (a step that leaves the prompt without reading a line) ends
   the process normally: the loop stops with status 0, nothing more is
   displayed, no round starts afterwards, and the key of a round without
   result is not displayed. *)
C15_InterruptEndsProcess ==
    /\ [][(pc \in {"prompt", "ack"} /\ io' = io)
          => (pc' = "stopped" /\ exit_code' = 0 /\ round' = round)]_vars
    /\ [][pc = "stopped" => (pc' = "stopped" /\ round' = round /\ io' = io)]_vars
    /\ []((pc = "stopped" /\ InRound /\ game_result = None) =>
            \A i \in 1..Len(io) : ~Reveals(io[i]))

(* interrupted at the move prompt of the second round after an invalid input *)
C15_Witness ==
    /\ pc = "stopped"
    /\ round = 2
    /\ game_result = None
    /\ Len(io) = 3
    /\ io[2] = read(<<"7">>)
    /\ exit_code = 0

(* position i of the transcript is a help request read at the move prompt *)
HelpRead(t, i) == MoveRead(t, i) /\ t[i].line = <<"?">>

(* C16 as stated: after every help request the outcome matrix is printed and
   then the menu of the round is displayed again before the next input. *)
C16_HelpRedisplaysMenu ==
    InRound =>
        \A i \in 1..Len(io) :
            HelpRead(io, i) =>
                /\ i + 2 <= Len(io)
                /\ io[i + 1].ev = "help"
                /\ io[i + 2] = io[1]

(* C16 amended: after every help request the outcome matrix is printed and
   the next input is read at the same prompt; the menu is displayed once, at
   the start of the round, and not again after the help. *)
C16_HelpPrintsTableOnly ==
    InRound =>
        /\ \A i \in 1..Len(io) :
              HelpRead(io, i) =>
                /\ i < Len(io)
                /\ io[i + 1].ev = "help"
                /\ io[i + 1].title = "[Table of possible outcomes]"
                /\ io[i + 1].table.rows = help_table
                /\ Len(io[i + 1].table.rows) = Len(moves) + 1
                /\ i + 2 <= Len(io) => io[i + 2].ev = "input"
        /\ \A k \in 2..Len(io) : io[k].ev # "menu"

(* a help request, then the next line read with no menu in between *)
C16_Witness ==
    /\ pc = "prompt"
    /\ Len(io) = 5
    /\ HelpRead(io, 2)
    /\ io[3].ev = "help"
    /\ HelpRead(io, 4)
    /\ io[5].ev = "help"

(* the transcript of a finished round: menu, ..., selection, result,
   acknowledgment *)
RoundComplete(t) ==
    /\ Len(t) >= 4
    /\ t[1].ev = "menu"
    /\ t[Len(t) - 2].ev = "input"
    /\ t[Len(t) - 1].ev = "result"
    /\ t[Len(t)].ev = "input"

(* C18: rounds follow one another, each in the order commit, input, resolve,
   reveal and display, acknowledgment: a round starts only from the loop, the
   first one after validation and every later one after the result of the
   previous round was displayed and acknowledged; a round starts with a new
   pick, key and digest display; after the acknowledgment the process is back
   in the loop, from where it starts the next round unless interrupted. *)
C18_RoundsSequential ==
    /\ [][round' # round =>
            /\ round' = round + 1
            /\ pc = "loop" /\ pc' = "prompt"
            /\ round >= 1 => RoundComplete(io)
            /\ Len(drawn') = round'
            /\ io' = <<display_menu(moves, hmac_new(drawn'[round'], computer_move'))>>
            /\ game_result' = None]_vars
    /\ [][pc = "ack" => pc' \in {"loop", "stopped"}]_vars
    /\ [][pc = "loop" => (pc' = "stopped" \/ (pc' = "prompt" /\ round' = round + 1))]_vars
    /\ []((pc = "loop" /\ round < MaxRounds) => ENABLED RoundStart)
    /\ [](InRound =>
            /\ io[1].ev = "menu"
            /\ \A i \in 1..Len(io) :
                  io[i].ev = "result" =>
                    /\ io[i - 1].ev = "input"
                    /\ game_result = io[i].result
                    /\ io[i].key = get_secret_key(hmac)
                    /\ i + 1 <= Len(io) => (i + 1 = Len(io) /\ io[i + 1].ev = "input")
            /\ pc = "ack" => io[Len(io)].ev = "result"
            /\ io[Len(io)].ev = "result" => pc \in {"ack", "stopped"}
            /\ pc = "loop" => RoundComplete(io))

(* the second round shows its result; the first was played to its end *)
C18_Witness ==
    /\ round = 2
    /\ pc = "ack"
    /\ Len(drawn) = 2
    /\ io[1].ev = "menu"
    /\ io[Len(io)].ev = "result"

(* C19: the table shown on a help request, in any round and after any
   earlier help requests, is the table built at construction, which never
   grows or changes; when it is printed it is the header row and exactly n
   outcome rows, row i holding moves[i] and then determine(moves[i], moves[j])
   for every j. *)
C19_HelpTableStable ==
    /\ [](InRound =>
            \A i \in 1..Len(io) :
                io[i].ev = "help" => io[i].table.rows = help_table)
    /\ []((InRound /\ io[Len(io)].ev = "help") =>
            LET rows == io[Len(io)].table.rows
            IN  /\ Len(rows) = Len(moves) + 1
                /\ rows[1] = <<"User \\ PC">> \o moves
                /\ \A a \in 1..Len(moves) :
                      /\ Len(rows[a + 1]) = Len(moves) + 1
                      /\ rows[a + 1][1] = moves[a]
                      /\ \A b \in 1..Len(moves) :
                            rows[a + 1][b + 1]
                                = determine(moves, moves[a], moves[b]))
    /\ [][pc # "new" => help_table' = help_table]_vars

(* two help requests in the second round show the same table *)
C19_Witness ==
    /\ round = 2
    /\ pc = "prompt"
    /\ Len(io) = 5
    /\ io[3].ev = "help"
    /\ io[5].ev = "help"
    /\ io[3].table = io[5].table
    /\ Len(io[5].table.rows) = 4

(* check_correct_input_moves has run on the move list and let it pass *)
CheckPassed == pc \notin {"new", "constructed"} /\ Validated(moves)

(* C20 as stated: determine is never called and the outcome matrix is never
   built on a move list that has not yet passed check_correct_input_moves. *)
C20_NothingBeforeValidation ==
    (help_table # <<>> \/ game_result # None) => CheckPassed

(* C20 amended: validation gates all play: on a move list that has not passed
   check_correct_input_moves no round starts, no key is drawn, no input is
   read and no digest, outcome matrix or result is displayed; the outcome
   matrix itself is built, through determine, when Game is constructed,
   before the check and also for lists the check then rejects. *)
C20_ValidationGatesPlay ==
    /\ pc = "new" => help_table = <<>>
    /\ pc = "constructed" => help_table = build_table(moves)
    /\ ~CheckPassed =>
          /\ round = 0
          /\ drawn = <<>>
          /\ computer_move = None
          /\ game_result = None
          /\ \A i \in 1..Len(io) : io[i].ev \in {"error", "print"}

(* a rejected list of four names whose matrix was built all the same *)
C20_Witness ==
    /\ pc = "exited"
    /\ round = 0
    /\ Len(moves) = 4
    /\ ~CheckPassed
    /\ Len(help_table) = 5
    /\ help_table[2][3] = determine(moves, moves[1], moves[2])

-----------------------------------------------------------------------------
(* Property of determine on arbitrary lists, checked under ErrSpec *)

(* C17: whenever the human move or the computer move is not in the move list,
   whatever the list, determine ends with an error and returns no outcome. *)
C17_NonMemberRaises ==
    (pc = "err_done"
        /\ (user_move \notin Range(moves) \/ computer_move \notin Range(moves)))
    => (game_result = "ValueError" /\ game_result \notin Outcomes)

(* the human move is in a validated list, the computer move is not *)
C17_Witness ==
    /\ pc = "err_done"
    /\ Validated(moves)
    /\ user_move \in Range(moves)
    /\ computer_move = "spock"
    /\ game_result = "ValueError"

====
